---- MODULE Spec2Model ----
(***************************************************************************)
(* Model of the OBD dashboard controllers:                                 *)
(*   app/controllers/auth.py        AuthController.login                   *)
(*   app/controllers/odb/odb.py     ODBController._resolve_user,           *)
(*                                  process_sensor_params, process_csv     *)
(*   app/models/odb/session.py      ODBSession (primary key id)            *)
(* The store holds one table of session rows and one table of readings per *)
(* sensor type.  Requests are handled by concurrent workers; a handler is  *)
(* a sequence of steps, one per round trip to the store, and the steps of  *)
(* different requests interleave.  Spec runs the three handlers; SpecTx    *)
(* runs process_csv alone with flushes that may fail.                      *)
(***************************************************************************)
EXTENDS Integers, Sequences, FiniteSets, TLC

VARIABLES
    sessions,   \* committed odb_session rows, in insertion order
    readings,   \* committed reading rows, one sequence per sensor table
    pc,         \* per worker, the statement its handler is at
    job,        \* per worker, the handler running and its arguments
    sess,       \* per worker, the session get_or_create returned
    pend,       \* per worker, rows flushed but not committed
    steps,      \* per worker, the store operations completed in this call
    res,        \* per worker, the exception raised or the value returned
    raced,      \* per worker, the worker whose process_csv call was in
                \*   flight on the same id when this one passed the
                \*   existence check (0: none)
    ncalls      \* number of handler calls started so far

vars == <<sessions, readings, pc, job, sess, pend, steps, res, raced, ncalls>>

-----------------------------------------------------------------------------
(* Bounds of the model *)

MaxCalls == 2       \* handler calls in a behaviour
MaxRows == 2        \* data rows of an uploaded CSV file

(* Program constants *)

IdLen == 12         \* [:12] in process_csv

-----------------------------------------------------------------------------
(* Text.  Keys of a request are character sequences, so that the prefix    *)
(* match of process_sensor_params is computed and not assumed.             *)

EML == <<"e", "m", "l">>
SESSION == <<"s", "e", "s", "s", "i", "o", "n">>
FULL_NAME == <<"u", "s", "e", "r", "F", "u", "l", "l", "N", "a", "m", "e">>
LATITUDE == <<"k", "f", "f", "1", "0", "0", "6">>
LONGITUDE == <<"k", "f", "f", "1", "0", "0", "5">>
FUEL_LEVEL == <<"k", "2", "f">>
ENGINE_LOAD == <<"k", "4">>
ENGINE_RPM == <<"k", "c">>

\* A key the device sends with sensor metadata: userFullName05
FullNameKey == FULL_NAME \o <<"0", "5">>

SensorKeys == {LATITUDE, LONGITUDE, FUEL_LEVEL, ENGINE_LOAD, ENGINE_RPM}

Types == {"gps", "load", "rpm", "speed", "fuel"}

\* re.compile(prefix + '.*').match(key): the key starts with the prefix
ReMatchPrefix(prefix, key) ==
    /\ Len(key) >= Len(prefix)
    /\ SubSeq(key, 1, Len(prefix)) = prefix

-----------------------------------------------------------------------------
(* Users.  The user table is only read by these controllers.               *)

\* bcrypt: the hash carries its salt; checkpw re-hashes with that salt.
hashpw(password, salt) == <<"2b", salt, password>>

checkpw(password, hashed) == hashpw(password, hashed[2]) = hashed

\* the password each user registered with, by user id
PlainPasswords == <<"pw-ana", "pw-bob">>

Users == <<
    [id |-> 1, email |-> "ana@x", password |-> hashpw(PlainPasswords[1], "s1")],
    [id |-> 2, email |-> "bob@x", password |-> hashpw(PlainPasswords[2], "s2")] >>

NoUser == [id |-> 0, email |-> "", password |-> <<>>]

\* query(User).filter(User.email == email).first(): first match or None
FirstUserByEmail(email) ==
    LET hits == {i \in 1..Len(Users) : Users[i].email = email} IN
    IF hits = {} THEN NoUser
    ELSE Users[CHOOSE i \in hits : \A j \in hits : i <= j]

-----------------------------------------------------------------------------
(* Dates and the derived session id of a CSV upload.                       *)

\* A datetime: whole epoch seconds and microseconds.
DigitChars == <<"0", "1", "2", "3", "4", "5", "6", "7", "8", "9">>

RECURSIVE NatStr(_)
\* str() of a natural number
NatStr(n) ==
    IF n < 10 THEN <<DigitChars[n + 1]>>
    ELSE NatStr(n \div 10) \o <<DigitChars[(n % 10) + 1]>>

RECURSIVE StripZeros(_)
\* drop trailing "0" characters
StripZeros(s) ==
    IF s # <<>> /\ s[Len(s)] = "0" THEN StripZeros(SubSeq(s, 1, Len(s) - 1))
    ELSE s

RECURSIVE PadLeft(_, _)
\* left-pad with "0" to n characters
PadLeft(s, n) == IF Len(s) >= n THEN s ELSE PadLeft(<<"0">> \o s, n)

\* str(dt.timestamp()): seconds, a dot, and the microseconds as the shortest
\* decimal fraction ("0" for a whole second)
TimestampStr(dt) ==
    LET frac == StripZeros(PadLeft(NatStr(dt.micro), 6)) IN
    NatStr(dt.sec) \o <<".">> \o (IF frac = <<>> THEN <<"0">> ELSE frac)

\* s.replace('.', '')
RemoveDots(s) == SelectSeq(s, LAMBDA c : c # ".")

\* s[:n]
Take(s, n) == SubSeq(s, 1, IF Len(s) < n THEN Len(s) ELSE n)

\* gen_session_id = str(start_datetime.timestamp()).replace('.', '')[:12]
gen_session_id(start_datetime) ==
    Take(RemoveDots(TimestampStr(start_datetime)), IdLen)

\* First-row dates of the uploaded files of the model.  The second and the
\* third differ in the third fractional digit only.
StartDates == <<
    [sec |-> 1600000000, micro |-> 0],
    [sec |-> 1600000000, micro |-> 120000],
    [sec |-> 1600000000, micro |-> 123000] >>

\* datetime.utcnow / datetime.now of a live request (one clock reading)
UtcNow == [sec |-> 1600000500, micro |-> 0]

\* Session tokens a device sends.  The first equals the id derived from the
\* second start date; the second is a millisecond epoch.
Tokens == <<
    <<"1", "6", "0", "0", "0", "0", "0", "0", "0", "0", "1", "2">>,
    <<"1", "6", "0", "0", "0", "0", "0", "5", "0", "0", "0", "0", "0">> >>

-----------------------------------------------------------------------------
(* The store.                                                              *)

EmptyReadings == [t \in Types |-> <<>>]

EmptyDb == [sessions |-> <<>>, readings |-> EmptyReadings]

SessionIds(tbl) == {tbl[i].id : i \in 1..Len(tbl)}

\* Mutant: the table has no primary key, every insert is accepted.
InsertSessionNoKey(tbl, row) == [ok |-> TRUE, tbl |-> Append(tbl, row)]

\* Mutant: an insert of a present id is merged away instead of refused.
InsertSessionMerge(tbl, row) ==
    IF row.id \in SessionIds(tbl) THEN [ok |-> TRUE, tbl |-> tbl]
    ELSE [ok |-> TRUE, tbl |-> Append(tbl, row)]

\* INSERT into odb_session.  id is the primary key: a row whose id is in the
\* table already is refused (IntegrityError).
InsertSession(tbl, row) ==
    IF row.id \in SessionIds(tbl) THEN [ok |-> FALSE, tbl |-> tbl]
    ELSE [ok |-> TRUE, tbl |-> Append(tbl, row)]

\* Mutant: the existence check is left out.
CsvSessionExistsNever(tbl, id) == FALSE

\* query(ODBSession).filter(ODBSession.id == id).first() is not None
CsvSessionExists(tbl, id) == id \in SessionIds(tbl)

\* rows of table t that reference session id
RowsOf(rd, t, id) == SelectSeq(rd[t], LAMBDA r : r.session_id = id)

-----------------------------------------------------------------------------
(* Sub-controllers.                                                        *)

\* SessionController(user_id).get_or_create(token): the session row of this
\* user with this id, created (date defaulting to utcnow) when there is none.
get_or_create(tbl, user_id, token) ==
    LET hits == {i \in 1..Len(tbl) : tbl[i].id = token /\ tbl[i].user_id = user_id}
        row == [id |-> token, user_id |-> user_id, date |-> UtcNow]
        ins == InsertSession(tbl, row)
    IN  IF hits # {}
        THEN [ok |-> TRUE, tbl |-> tbl,
              session |-> tbl[CHOOSE i \in hits : \A j \in hits : i <= j]]
        ELSE [ok |-> ins.ok, tbl |-> ins.tbl, session |-> row]

\* register_gps_reading / register_fuel_level / register_load / register_rpm:
\* one row of table t for the session, the value passed through as it is
RegisterReading(rd, t, session, value) ==
    [rd EXCEPT ![t] = Append(@, [session_id |-> session.id, value |-> value])]

\* register_<t>_from_csv(session, csv, flush=True): one row of table t per
\* data row of the file, in file order
RegisterFromCsv(rd, t, session, file) ==
    [rd EXCEPT ![t] = @ \o [i \in 1..file.n |->
                              [session_id |-> session.id, value |-> <<file.k, i>>]]]

-----------------------------------------------------------------------------
(* ODBController, live parameter path.                                     *)

\* data.get(k): <<value>> when the key is present, <<>> (None) when not
DataGet(data, k) == IF k \in DOMAIN data THEN <<data[k]>> ELSE <<>>

\* not x, for x the result of data.get: None and the empty string are falsy
Falsy(opt) == opt = <<>> \/ opt[1] = ""

\* Mutant: the key must be the bare prefix (fullmatch without '.*').
has_full_name_keys_exact(data) == FULL_NAME \in DOMAIN data

\* any(filter(re.compile(FULL_NAME + '.*').match, data.keys()))
has_full_name_keys(data) ==
    \E k \in DOMAIN data : ReMatchPrefix(FULL_NAME, k) /\ k # <<>>

\* Mutant: the user query has lost its email filter, first() is any user.
_resolve_user_no_filter(data) ==
    LET user_email == DataGet(data, EML) IN
    IF Falsy(user_email)
    THEN [user |-> NoUser, exc |-> "ODBControllerError",
          msg |-> "User email not found", ops |-> <<>>]
    ELSE [user |-> Users[1], exc |-> "", msg |-> "", ops |-> <<"query_user">>]

\* _resolve_user
_resolve_user(data) ==
    LET user_email == DataGet(data, EML) IN
    IF Falsy(user_email)
    THEN [user |-> NoUser, exc |-> "ODBControllerError",
          msg |-> "User email not found", ops |-> <<>>]
    ELSE LET user == FirstUserByEmail(user_email[1]) IN
         IF user = NoUser
         THEN [user |-> NoUser, exc |-> "ODBControllerError",
               msg |-> "User does not exist", ops |-> <<"query_user">>]
         ELSE [user |-> user, exc |-> "", msg |-> "", ops |-> <<"query_user">>]

\* the condition of each sensor branch of process_sensor_params
WantsGps(data) == LATITUDE \in DOMAIN data /\ LONGITUDE \in DOMAIN data
WantsFuel(data) == FUEL_LEVEL \in DOMAIN data
WantsLoad(data) == ENGINE_LOAD \in DOMAIN data
WantsRpm(data) == ENGINE_RPM \in DOMAIN data

\* the register call of each sensor branch, in program order, and its table
LiveCalls == <<"register_gps_reading", "register_fuel_level",
               "register_load", "register_rpm">>

LiveTables == <<"gps", "fuel", "load", "rpm">>

\* the condition of the i-th sensor branch
Wants(data, i) ==
    CASE i = 1 -> WantsGps(data)
      [] i = 2 -> WantsFuel(data)
      [] i = 3 -> WantsLoad(data)
      [] OTHER -> WantsRpm(data)

\* the values the i-th sensor branch passes to its register call
LiveValue(data, i) ==
    CASE i = 1 -> <<data[LATITUDE], data[LONGITUDE]>>
      [] i = 2 -> <<data[FUEL_LEVEL]>>
      [] i = 3 -> <<data[ENGINE_LOAD]>>
      [] OTHER -> <<data[ENGINE_RPM]>>

\* Mutant: the sensor branches are chained with elif, only the first that
\* applies runs.
LiveAfterElif(data, i) ==
    IF i > 0 THEN "returned"
    ELSE IF WantsGps(data) THEN LiveCalls[1]
    ELSE IF WantsFuel(data) THEN LiveCalls[2]
    ELSE IF WantsLoad(data) THEN LiveCalls[3]
    ELSE IF WantsRpm(data) THEN LiveCalls[4]
    ELSE "returned"

\* where process_sensor_params goes after its i-th sensor branch (i = 0:
\* after get_or_create): the next branch whose condition holds, the return
\* when there is none
LiveAfter(data, i) ==
    LET later == {j \in (i + 1)..Len(LiveCalls) : Wants(data, j)} IN
    IF later = {} THEN "returned"
    ELSE LiveCalls[CHOOSE j \in later : \A k \in later : j <= k]

\* Mutant: the controller is built without the user (user_id=None).
SessionOwnerNone(user) == 0

\* SessionController(user_id=user.id)
SessionOwner(user) == user.id

\* process_sensor_params up to the get_or_create call: the metadata test,
\* _resolve_user and data['session'].  The user table is never written, so
\* the user query reads the same whenever it runs.
LiveEntry(data) ==
    IF has_full_name_keys(data)
    THEN [pc |-> "returned", user |-> NoUser, exc |-> "", msg |-> "",
          ops |-> <<>>]
    ELSE
    LET ru == _resolve_user(data) IN
    IF ru.exc # ""
    THEN [pc |-> "raised", user |-> NoUser, exc |-> ru.exc, msg |-> ru.msg,
          ops |-> ru.ops]
    ELSE IF SESSION \notin DOMAIN data
    THEN [pc |-> "raised", user |-> ru.user, exc |-> "KeyError",
          msg |-> "session", ops |-> ru.ops]
    ELSE [pc |-> "get_or_create", user |-> ru.user, exc |-> "", msg |-> "",
          ops |-> ru.ops]

-----------------------------------------------------------------------------
(* ODBController, CSV bulk path.                                           *)

\* Mutant: the speed batch is forgotten.
CsvBatchesNoSpeed == <<"gps", "load", "rpm", "fuel">>

\* the tables of the sub-controller batches of process_csv, in program order
CsvBatches == <<"gps", "load", "rpm", "speed", "fuel">>

\* the register_<t>_from_csv call of a batch
BatchCall(t) ==
    CASE t = "gps" -> "register_gps_from_csv"
      [] t = "load" -> "register_load_from_csv"
      [] t = "rpm" -> "register_rpm_from_csv"
      [] t = "speed" -> "register_speed_from_csv"
      [] OTHER -> "register_fuel_level_from_csv"

BatchCalls == [i \in 1..Len(CsvBatches) |-> BatchCall(CsvBatches[i])]

\* Mutant: commit is issued before the fuel batch.
CsvStatementsCommitEarly ==
    <<"add_session", "register_gps_from_csv", "register_load_from_csv",
      "register_rpm_from_csv", "register_speed_from_csv", "commit",
      "register_fuel_level_from_csv">>

\* the statements of process_csv after the existence check, in program order
CsvStatements == <<"add_session">> \o BatchCalls \o <<"commit">>

\* the statement after statement st, "returned" after the last
StatementAfter(st) ==
    LET i == CHOOSE j \in 1..Len(CsvStatements) : CsvStatements[j] = st IN
    IF i = Len(CsvStatements) THEN "returned" ELSE CsvStatements[i + 1]

\* the table a batch statement writes
BatchTable(st) == CHOOSE t \in Types : BatchCall(t) = st

\* self._resolve_date_from_csv_row(csv.iloc[0])
StartDatetime(file) == StartDates[file.k]

\* ODBSession(id=gen_session_id, user_id=user.id, date=start_datetime)
CsvSessionRow(user, file) ==
    [id |-> gen_session_id(StartDatetime(file)), user_id |-> user.id,
     date |-> StartDatetime(file)]

-----------------------------------------------------------------------------
(* AuthController.                                                         *)

\* LoginSchema().load(data): both fields are required
LoginSchemaValid(data) == "email" \in DOMAIN data /\ "password" \in DOMAIN data

\* UserController().get_user(email=...): the user or None
GetUser(email) == FirstUserByEmail(email)

\* assert checkpw(password.encode('utf8'), user.password): what it raises
PasswordCheck(user, password) ==
    IF user = NoUser THEN "AttributeError"
    ELSE IF ~checkpw(password, user.password) THEN "AssertionError"
    ELSE ""

\* Mutant: only the failed assertion is caught.
LoginCaughtAssertionOnly == {"AssertionError"}

\* except (AssertionError, AttributeError)
LoginCaught == {"AssertionError", "AttributeError"}

\* login(data): the exception raised with its payload, or the user returned
login(data) ==
    IF ~LoginSchemaValid(data)
    THEN [exc |-> "AuthControllerException", msg |-> "validation", ret |-> NoUser]
    ELSE
    LET user == GetUser(data["email"])
        raised == PasswordCheck(user, data["password"])
    IN  IF raised = "" THEN [exc |-> "", msg |-> "", ret |-> user]
        ELSE IF raised \in LoginCaught
        THEN [exc |-> "AuthControllerException",
              msg |-> "Incorrect user and/or password", ret |-> NoUser]
        ELSE [exc |-> raised, msg |-> "", ret |-> NoUser]

-----------------------------------------------------------------------------
(* Inputs.                                                                 *)

\* email values a request may carry: empty, of no user, of each user
Emails == <<"", "eve@x", "ana@x", "bob@x">>

Passwords == {"pw-ana", "pw-bob"}

SensorValue(k) ==
    CASE k = LATITUDE -> 41
      [] k = LONGITUDE -> 2
      [] k = FUEL_LEVEL -> 55
      [] k = ENGINE_LOAD -> 30
      [] OTHER -> 900

\* the keys a request may or may not carry besides the email and the session
OptionalKeys == SensorKeys \cup {FullNameKey}

\* the sensor key sets of the model: no key, each key alone, both GPS keys,
\* every sensor key
KeySets ==
    {K \in SUBSET SensorKeys : Cardinality(K) <= 1}
    \cup {{LATITUDE, LONGITUDE}, SensorKeys}

\* key sets with a full-name key: alone, with both GPS keys, with every
\* sensor key
MetaKeySets ==
    {{FullNameKey}, {LATITUDE, LONGITUDE, FullNameKey}, OptionalKeys}

\* a live request: e = 0 and s = 0 leave the email and the session key out
LiveData(e, s, K) ==
    LET D == (IF e = 0 THEN {} ELSE {EML}) \cup (IF s = 0 THEN {} ELSE {SESSION})
             \cup K
    IN  [k \in D |-> IF k = EML THEN Emails[e]
                     ELSE IF k = SESSION THEN Tokens[s]
                     ELSE IF k = FullNameKey THEN "Fuel Level"
                     ELSE SensorValue(k)]

\* the live requests of the model: requests with the email of a user and a
\* token, with any sensor key set; the same without the session key;
\* requests without an email, with an empty one or with the email of no
\* user; requests with a full-name key
LiveRequests ==
    {LiveData(e, s, K) : e \in 3..Len(Emails), s \in 1..Len(Tokens),
                         K \in KeySets}
    \cup {LiveData(e, 0, K) : e \in 3..Len(Emails), K \in {{}, SensorKeys}}
    \cup {LiveData(e, s, K) : e \in 0..2, s \in 0..1, K \in {{}, SensorKeys}}
    \cup {LiveData(e, s, K) : e \in {0, 2, 3}, s \in 0..1, K \in MetaKeySets}

\* the uploaded files of the model: k is the first-row date, n the number of
\* data rows
Files == [k : 1..Len(StartDates), n : 1..MaxRows] \cup {[k |-> 1, n |-> 0]}

UserSet == {Users[i] : i \in 1..Len(Users)}

LoginData ==
    UNION {[D -> {Emails[e] : e \in 2..Len(Emails)} \cup Passwords] :
           D \in SUBSET {"email", "password"}}

LoginRequests ==
    {d \in LoginData :
        /\ "email" \in DOMAIN d => d["email"] \notin Passwords
        /\ "password" \in DOMAIN d => d["password"] \in Passwords}


-----------------------------------------------------------------------------
(* Requests.  A worker handles one request at a time; a request that       *)
(* arrives is taken by the lowest idle worker.  The reading and session    *)
(* sub-controllers of the live path write through at once (each call is    *)
(* one round trip, visible to every request when it returns);              *)
(* process_csv flushes into its own unit of work and its rows are visible  *)
(* to other requests from its commit on.  The store serialises inserts of  *)
(* one primary key: an insert waits while another open unit of work holds  *)
(* an uncommitted row of that key.                                         *)

Workers == {1, 2}

NoFile == [k |-> 0, n |-> 0]

NoJob == [op |-> "none", data |-> <<>>, user |-> NoUser, file |-> NoFile]

NoSession == [id |-> <<>>, user_id |-> 0, date |-> [sec |-> 0, micro |-> 0]]

NoRes == [exc |-> "", msg |-> "", ret |-> NoUser]

Init ==
    /\ sessions = <<>>
    /\ readings = EmptyReadings
    /\ pc = [w \in Workers |-> "idle"]
    /\ job = [w \in Workers |-> NoJob]
    /\ sess = [w \in Workers |-> NoSession]
    /\ pend = [w \in Workers |-> EmptyDb]
    /\ steps = [w \in Workers |-> <<>>]
    /\ res = [w \in Workers |-> NoRes]
    /\ raced = [w \in Workers |-> 0]
    /\ ncalls = 0

\* worker w may take a new request
Free(w) ==
    /\ ncalls < MaxCalls
    /\ pc[w] = "idle"
    /\ \A v \in Workers : v < w => pc[v] # "idle"

\* session ids other workers hold flushed and uncommitted
HeldByOthers(w) ==
    UNION {SessionIds(pend[v].sessions) : v \in Workers \ {w}}

\* the exception a statement raises, uncaught by the handler
Raise(w, exception, message) ==
    /\ pc' = [pc EXCEPT ![w] = "raised"]
    /\ res' = [res EXCEPT ![w] = [exc |-> exception, msg |-> message,
                                  ret |-> NoUser]]

\* process_sensor_params is called: odb.py:79-87 up to the get_or_create call
LiveCall(w) ==
    /\ Free(w)
    /\ \E data \in LiveRequests :
         LET e == LiveEntry(data) IN
         /\ job' = [job EXCEPT ![w] = [NoJob EXCEPT !.op = "live",
                                                    !.data = data,
                                                    !.user = e.user]]
         /\ pc' = [pc EXCEPT ![w] = e.pc]
         /\ res' = [res EXCEPT ![w] = [exc |-> e.exc, msg |-> e.msg,
                                       ret |-> NoUser]]
         /\ steps' = [steps EXCEPT ![w] = e.ops]
    /\ ncalls' = ncalls + 1
    /\ UNCHANGED <<sessions, readings, sess, pend, raced>>

\* SessionController(user_id=user.id).get_or_create(data['session'])
LiveGetOrCreate(w) ==
    /\ pc[w] = "get_or_create"
    /\ LET token == job[w].data[SESSION]
           owner == SessionOwner(job[w].user)
           gc == get_or_create(sessions, owner, token)
       IN  /\ (\A i \in 1..Len(sessions) :
                  ~(sessions[i].id = token /\ sessions[i].user_id = owner))
              => token \notin HeldByOthers(w)
           /\ steps' = [steps EXCEPT ![w] = Append(@, "get_or_create")]
           /\ IF gc.ok
              THEN /\ sessions' = gc.tbl
                   /\ sess' = [sess EXCEPT ![w] = gc.session]
                   /\ pc' = [pc EXCEPT ![w] = LiveAfter(job[w].data, 0)]
                   /\ res' = res
              ELSE /\ Raise(w, "IntegrityError", "odb_session.id")
                   /\ UNCHANGED <<sessions, sess>>
    /\ UNCHANGED <<readings, job, pend, raced, ncalls>>

\* one sensor branch: register_gps_reading, register_fuel_level,
\* register_load or register_rpm
LiveRegister(w) ==
    /\ \E i \in 1..Len(LiveCalls) :
         /\ pc[w] = LiveCalls[i]
         /\ readings' = RegisterReading(readings, LiveTables[i], sess[w],
                                        LiveValue(job[w].data, i))
         /\ pc' = [pc EXCEPT ![w] = LiveAfter(job[w].data, i)]
    /\ steps' = [steps EXCEPT ![w] = Append(@, pc[w])]
    /\ UNCHANGED <<sessions, job, sess, pend, res, raced, ncalls>>

process_sensor_params(w) ==
    \/ LiveCall(w)
    \/ LiveGetOrCreate(w)
    \/ LiveRegister(w)

InFlight(w) ==
    /\ job[w].op = "csv"
    /\ \E i \in 1..Len(CsvStatements) : pc[w] = CsvStatements[i]

\* another worker whose process_csv call is past the existence check, not
\* yet returned, and derives the same id; 0 when there is none
Rival(w, user, file) ==
    LET vs == {v \in Workers \ {w} :
                 /\ InFlight(v)
                 /\ CsvSessionRow(job[v].user, job[v].file).id
                    = CsvSessionRow(user, file).id}
    IN  IF vs = {} THEN 0 ELSE CHOOSE v \in vs : TRUE

\* process_csv is called: read_csv, the start date, the derived id and the
\* existence check (odb.py:131-136)
CsvCall(w) ==
    /\ Free(w)
    /\ \E user \in UserSet, file \in Files :
         /\ job' = [job EXCEPT ![w] = [NoJob EXCEPT !.op = "csv",
                                                    !.user = user,
                                                    !.file = file]]
         /\ IF file.n = 0
            THEN /\ Raise(w, "IndexError", "iloc")
                 /\ steps' = [steps EXCEPT ![w] = <<>>]
                 /\ raced' = raced
            ELSE /\ steps' = [steps EXCEPT ![w] = <<"query_session">>]
                 /\ res' = [res EXCEPT ![w] = NoRes]
                 /\ IF CsvSessionExists(sessions \o pend[w].sessions,
                                        CsvSessionRow(user, file).id)
                    THEN /\ pc' = [pc EXCEPT ![w] = "returned"]
                         /\ raced' = raced
                    ELSE /\ pc' = [pc EXCEPT ![w] = CsvStatements[1]]
                         /\ raced' = [raced EXCEPT ![w] = Rival(w, user, file)]
    /\ ncalls' = ncalls + 1
    /\ UNCHANGED <<sessions, readings, sess, pend>>

\* db_session.add(session); db_session.flush()
CsvAddSession(w) ==
    /\ job[w].op = "csv"
    /\ pc[w] = "add_session"
    /\ LET row == CsvSessionRow(job[w].user, job[w].file)
           ins == InsertSession(sessions \o pend[w].sessions, row)
       IN  /\ row.id \notin HeldByOthers(w)
           /\ IF ins.ok
              THEN /\ pend' = [pend EXCEPT ![w].sessions =
                                SubSeq(ins.tbl, Len(sessions) + 1, Len(ins.tbl))]
                   /\ pc' = [pc EXCEPT ![w] = StatementAfter("add_session")]
                   /\ steps' = [steps EXCEPT ![w] = Append(@, "add_session")]
                   /\ res' = res
              ELSE /\ Raise(w, "IntegrityError", "odb_session.id")
                   /\ UNCHANGED <<pend, steps>>
    /\ UNCHANGED <<sessions, readings, job, sess, raced, ncalls>>

\* register_<t>_from_csv(session, csv, flush=True)
CsvBatch(w) ==
    /\ job[w].op = "csv"
    /\ \E i \in 1..Len(BatchCalls) : pc[w] = BatchCalls[i]
    /\ pend' = [pend EXCEPT ![w].readings =
                   RegisterFromCsv(@, BatchTable(pc[w]),
                                   CsvSessionRow(job[w].user, job[w].file),
                                   job[w].file)]
    /\ pc' = [pc EXCEPT ![w] = StatementAfter(pc[w])]
    /\ steps' = [steps EXCEPT ![w] = Append(@, pc[w])]
    /\ UNCHANGED <<sessions, readings, job, sess, res, raced, ncalls>>

\* db_session.commit(): the pending rows become committed, all at once
CsvCommit(w) ==
    /\ job[w].op = "csv"
    /\ pc[w] = "commit"
    /\ sessions' = sessions \o pend[w].sessions
    /\ readings' = [t \in Types |-> readings[t] \o pend[w].readings[t]]
    /\ pend' = [pend EXCEPT ![w] = EmptyDb]
    /\ pc' = [pc EXCEPT ![w] = StatementAfter("commit")]
    /\ steps' = [steps EXCEPT ![w] = Append(@, "commit")]
    /\ UNCHANGED <<job, sess, res, raced, ncalls>>

process_csv(w) ==
    \/ CsvCall(w)
    \/ CsvAddSession(w)
    \/ CsvBatch(w)
    \/ CsvCommit(w)

\* AuthController.login: the user table is only read, the call is one step
LoginCall(w) ==
    /\ Free(w)
    /\ \E data \in LoginRequests :
         LET r == login(data) IN
         /\ job' = [job EXCEPT ![w] = [NoJob EXCEPT !.op = "login",
                                                    !.data = data]]
         /\ pc' = [pc EXCEPT ![w] = IF r.exc = "" THEN "returned" ELSE "raised"]
         /\ res' = [res EXCEPT ![w] = r]
    /\ steps' = [steps EXCEPT ![w] = <<>>]
    /\ ncalls' = ncalls + 1
    /\ UNCHANGED <<sessions, readings, sess, pend, raced>>

\* the request ends: the framework discards what the unit of work left
\* pending and the worker is idle again
RequestEnd(w) ==
    /\ pc[w] \in {"returned", "raised"}
    /\ pc' = [pc EXCEPT ![w] = "idle"]
    /\ job' = [job EXCEPT ![w] = NoJob]
    /\ sess' = [sess EXCEPT ![w] = NoSession]
    /\ pend' = [pend EXCEPT ![w] = EmptyDb]
    /\ steps' = [steps EXCEPT ![w] = <<>>]
    /\ res' = [res EXCEPT ![w] = NoRes]
    /\ raced' = [v \in Workers |->
                    IF v = w \/ raced[v] = w THEN 0 ELSE raced[v]]
    /\ UNCHANGED <<sessions, readings, ncalls>>

Next ==
    \E w \in Workers :
       \/ process_sensor_params(w)
       \/ process_csv(w)
       \/ LoginCall(w)
       \/ RequestEnd(w)

Spec == Init /\ [][Next]_vars

\* a flush of process_csv fails (lost connection, lock timeout): the
\* statement raises and nothing catches it
TxFail(w) ==
    /\ InFlight(w)
    /\ pc[w] # "commit"
    /\ Raise(w, "OperationalError", "flush")
    /\ UNCHANGED <<sessions, readings, job, sess, pend, steps, raced, ncalls>>

NextTx ==
    \E w \in Workers :
       \/ process_csv(w)
       \/ TxFail(w)
       \/ RequestEnd(w)

SpecTx == Init /\ [][NextTx]_vars

-----------------------------------------------------------------------------
(* Properties of Spec.  In an action formula the unprimed variables are    *)
(* the state before a step and the primed ones the state after it; the     *)
(* worker whose statement the step runs is the one whose pc changes.       *)

\* the step is a statement of worker w
Acts(w) == pc'[w] # pc[w]

\* the step is the call of handler op by worker w
Calls(w, op) == pc[w] = "idle" /\ job'[w].op = op

\* the request carries a key that starts with the full-name prefix
MetadataOnly(data) == \E k \in DOMAIN data : ReMatchPrefix(FULL_NAME, k)

\* the request carries the email of a registered user
KnownEmail(data) ==
    /\ EML \in DOMAIN data
    /\ \E i \in 1..Len(Users) : Users[i].email = data[EML]

UserOf(data) == CHOOSE u \in UserSet : u.email = data[EML]

\* the id process_csv derives for a file with at least one data row
DerivedId(file) == gen_session_id(StartDates[file.k])

\* table t2 is table t1 with n rows appended
Extends(t1, t2, n) ==
    /\ Len(t2) = Len(t1) + n
    /\ SubSeq(t2, 1, Len(t1)) = t1

StoreUntouched == sessions' = sessions /\ readings' = readings

\* a call that has returned or raised only ends, changing no row
OnlyEnds(w) == Acts(w) => (pc'[w] = "idle" /\ StoreUntouched)

\* the rows register_<t>_from_csv makes of a file for session id
FileRows(file, id) ==
    [i \in 1..file.n |-> [session_id |-> id, value |-> <<file.k, i>>]]

Count(seq, x) == Cardinality({i \in 1..Len(seq) : seq[i] = x})

\* the store operations of a process_csv call that commits
FullUpload ==
    <<"query_session", "add_session", "register_gps_from_csv",
      "register_load_from_csv", "register_rpm_from_csv",
      "register_speed_from_csv", "register_fuel_level_from_csv", "commit">>

\* C1: a CSV upload whose derived session id is already the id of a session
\* row (of any user, made by an upload or by a live request) returns without
\* error after the existence check alone: it flushes nothing, issues no
\* commit, and no row of any table is added or changed by it.
C1_ReuploadIsNoOp ==
    [][\A w \in Workers :
          /\ (/\ Calls(w, "csv")
              /\ job'[w].file.n > 0
              /\ \E i \in 1..Len(sessions) :
                    sessions[i].id = DerivedId(job'[w].file))
             => (/\ pc'[w] = "returned"
                 /\ res'[w].exc = ""
                 /\ steps'[w] = <<"query_session">>
                 /\ pend'[w] = EmptyDb
                 /\ StoreUntouched)
          /\ (/\ job[w].op = "csv"
              /\ pc[w] = "returned"
              /\ steps[w] = <<"query_session">>)
             => OnlyEnds(w)]_vars

\* a skipped upload by one user over a session another user's live request
\* made
C1_Witness ==
    \E w \in Workers :
       /\ job[w].op = "csv"
       /\ pc[w] = "returned"
       /\ steps[w] = <<"query_session">>
       /\ \E i \in 1..Len(sessions) :
             /\ sessions[i].id = DerivedId(job[w].file)
             /\ sessions[i].user_id # job[w].user.id
             /\ sessions[i].date = UtcNow

\* C2: a CSV upload of a file with N >= 1 data rows whose derived id is not a
\* session id, neither at its existence check nor when it flushes its
\* session row, runs the session insert and the five batches and commits:
\* the commit adds exactly one session row (the derived id, the uploading
\* user) and exactly N rows to each of the five reading tables, all
\* referencing the new session; no other step of the call changes a row, and
\* every earlier row stays as it was.
C2_UploadAddsSessionAndRows ==
    [][\A w \in Workers :
          /\ (/\ Calls(w, "csv")
              /\ job'[w].file.n > 0
              /\ \A i \in 1..Len(sessions) :
                    sessions[i].id # DerivedId(job'[w].file))
             => (pc'[w] = "add_session" /\ StoreUntouched)
          /\ (job[w].op = "csv" /\ Acts(w))
             => LET id == DerivedId(job[w].file)
                    n == job[w].file.n
                IN  /\ (pc[w] = "add_session" /\ id \notin SessionIds(sessions))
                       => pc'[w] = "register_gps_from_csv"
                    /\ pc'[w] = "raised" => pc[w] = "add_session"
                    /\ pc[w] # "commit" => StoreUntouched
                    /\ pc'[w] = "returned" => (pc[w] = "commit" /\ res'[w].exc = "")
                    /\ pc[w] = "commit"
                       => (/\ steps'[w] = FullUpload
                           /\ pc'[w] = "returned"
                           /\ sessions' = Append(sessions,
                                 [id |-> id, user_id |-> job[w].user.id,
                                  date |-> StartDates[job[w].file.k]])
                           /\ \A t \in Types :
                                 /\ Extends(readings[t], readings'[t], n)
                                 /\ \A i \in (Len(readings[t]) + 1)..Len(readings'[t]) :
                                       readings'[t][i].session_id = id)]_vars

\* an upload of a two-row file has committed into a store that already held
\* another session
C2_Witness ==
    \E w \in Workers :
       /\ job[w].op = "csv"
       /\ pc[w] = "returned"
       /\ steps[w] = FullUpload
       /\ job[w].file.n = 2
       /\ Len(sessions) = 2
       /\ sessions[2].id = DerivedId(job[w].file)
       /\ \A t \in Types : Len(RowsOf(readings, t, DerivedId(job[w].file))) = 2

\* C3: a live request with a full-name-prefixed key returns without error
\* and without any store operation (no user query, no session get-or-create,
\* no insert), whatever else it carries.
C3_MetadataRequestIgnored ==
    [][\A w \in Workers :
          /\ (Calls(w, "live") /\ MetadataOnly(job'[w].data))
             => (/\ pc'[w] = "returned"
                 /\ res'[w].exc = ""
                 /\ steps'[w] = <<>>
                 /\ sess'[w] = NoSession
                 /\ StoreUntouched)
          /\ (job[w].op = "live" /\ MetadataOnly(job[w].data))
             => OnlyEnds(w)]_vars

\* a metadata request without email, carrying both GPS keys, has returned
\* after a session was stored
C3_Witness ==
    \E w \in Workers :
       /\ job[w].op = "live"
       /\ FullNameKey \in DOMAIN job[w].data
       /\ EML \notin DOMAIN job[w].data
       /\ {LATITUDE, LONGITUDE} \subseteq DOMAIN job[w].data
       /\ pc[w] = "returned"
       /\ steps[w] = <<>>
       /\ Len(sessions) = 1

\* C4: no two session rows of the store share an id.
C4_SessionIdsUnique ==
    \A i, j \in 1..Len(sessions) : sessions[i].id = sessions[j].id => i = j

\* a live request whose token is the id of another user's uploaded session is
\* refused by the primary key
C4_Witness ==
    \E w \in Workers :
       /\ job[w].op = "live"
       /\ pc[w] = "raised"
       /\ res[w].exc = "IntegrityError"
       /\ \E i \in 1..Len(sessions) :
             /\ sessions[i].id = job[w].data[SESSION]
             /\ sessions[i].date # UtcNow

\* the session rows of user u with id t
RowsOfPair(tbl, u, t) ==
    {i \in 1..Len(tbl) : tbl[i].id = t /\ tbl[i].user_id = u}

\* C5: a live request whose get-or-create returns finds or creates the one
\* session row of its (user id, token) pair: the row is created only when the
\* pair had none, so no pair ever has two rows; session rows are never
\* changed or removed, so every request of the pair gets the same row; and
\* every reading a request adds references that row.
C5_GetOrCreateIdempotent ==
    [][/\ \A u \in 1..Len(Users), s \in 1..Len(Tokens) :
             Cardinality(RowsOfPair(sessions', u, Tokens[s])) <= 1
       /\ Len(sessions') >= Len(sessions)
       /\ SubSeq(sessions', 1, Len(sessions)) = sessions
       /\ \A w \in Workers :
             (job[w].op = "live" /\ Acts(w))
             => LET u == UserOf(job[w].data).id
                    t == job[w].data[SESSION]
                IN  /\ (pc[w] = "get_or_create" /\ pc'[w] # "raised")
                       => (/\ Cardinality(RowsOfPair(sessions', u, t)) = 1
                           /\ \E i \in RowsOfPair(sessions', u, t) :
                                 sess'[w] = sessions'[i]
                           /\ RowsOfPair(sessions, u, t) # {}
                              => sessions' = sessions
                           /\ RowsOfPair(sessions, u, t) = {}
                              => Extends(sessions, sessions', 1))
                    /\ pc[w] \notin {"get_or_create", "returned", "raised"}
                       => (/\ sess'[w] = sess[w]
                           /\ sess[w].id = t
                           /\ sess[w].user_id = u
                           /\ \A ty \in Types :
                                 \A i \in (Len(readings[ty]) + 1)..Len(readings'[ty]) :
                                    readings'[ty][i].session_id = t)]_vars

\* two requests of one pair in flight together: both hold the one session
\* row, and each has stored a fuel reading on it
C5_Witness ==
    \E w, v \in Workers :
       /\ w # v
       /\ job[w].op = "live" /\ job[v].op = "live"
       /\ pc[w] = "register_load" /\ pc[v] = "register_load"
       /\ Len(sessions) = 1
       /\ sess[w] = sessions[1] /\ sess[v] = sessions[1]
       /\ Len(RowsOf(readings, "fuel", sessions[1].id)) = 2

\* the register calls a request is expected to make, in program order
ExpectedCalls(data) ==
    (IF {LATITUDE, LONGITUDE} \subseteq DOMAIN data
     THEN <<"register_gps_reading">> ELSE <<>>)
    \o (IF FUEL_LEVEL \in DOMAIN data THEN <<"register_fuel_level">> ELSE <<>>)
    \o (IF ENGINE_LOAD \in DOMAIN data THEN <<"register_load">> ELSE <<>>)
    \o (IF ENGINE_RPM \in DOMAIN data THEN <<"register_rpm">> ELSE <<>>)

\* the row a register call of a request stores
ExpectedRow(call, data) ==
    [session_id |-> data[SESSION],
     value |-> CASE call = "register_gps_reading"
                      -> <<data[LATITUDE], data[LONGITUDE]>>
                 [] call = "register_fuel_level" -> <<data[FUEL_LEVEL]>>
                 [] call = "register_load" -> <<data[ENGINE_LOAD]>>
                 [] OTHER -> <<data[ENGINE_RPM]>>]

\* the table a register call writes
ExpectedTable(call) ==
    CASE call = "register_gps_reading" -> "gps"
      [] call = "register_fuel_level" -> "fuel"
      [] call = "register_load" -> "load"
      [] OTHER -> "rpm"

\* the steps of a live request store exactly its expected readings: each
\* register step appends one row, tied to the session, to its table and
\* leaves every other table alone; no other step of the request touches a
\* reading table; a request that returns has made exactly the expected
\* register calls.  No live step writes the speed table.
ExactDispatch(w) ==
    /\ (Acts(w) /\ pc[w] \in {"idle", "get_or_create"}) => readings' = readings
    /\ (Acts(w) /\ pc[w] \in {"returned", "raised"}) => StoreUntouched
    /\ (Acts(w) /\ pc[w] \notin {"idle", "get_or_create", "returned", "raised"})
       => (/\ sessions' = sessions
           /\ \A t \in Types :
                 IF t = ExpectedTable(pc[w])
                 THEN readings'[t]
                      = Append(readings[t], ExpectedRow(pc[w], job[w].data))
                 ELSE readings'[t] = readings[t])
    /\ (Acts(w) /\ pc'[w] = "returned")
       => steps'[w] = <<"query_user", "get_or_create">>
                         \o ExpectedCalls(job'[w].data)

\* C6 as stated: every live request that is not metadata-only and whose user
\* resolves returns, having stored exactly one reading per sensor whose
\* key(s) it carries.
C6_AsStated ==
    [][\A w \in Workers :
          (/\ job'[w].op = "live"
           /\ ~MetadataOnly(job'[w].data)
           /\ KnownEmail(job'[w].data))
          => (pc'[w] # "raised" /\ ExactDispatch(w))]_vars

\* C6 amended: a live request that is not metadata-only, whose user resolves,
\* which carries the session key and whose get-or-create returns a session
\* (it raises only when the token is the id of another user's session)
\* returns without error and stores exactly: one GPS reading iff both
\* latitude and longitude are present, one fuel, load and RPM reading iff the
\* respective key is present, no speed reading, all tied to the resolved
\* session.
C6_DispatchWhenSessionResolves ==
    [][\A w \in Workers :
          (/\ job'[w].op = "live"
           /\ ~MetadataOnly(job'[w].data)
           /\ KnownEmail(job'[w].data)
           /\ SESSION \in DOMAIN job'[w].data)
          => (/\ ExactDispatch(w)
              /\ (Acts(w) /\ pc'[w] = "raised")
                 => (/\ pc[w] = "get_or_create"
                     /\ \E i \in 1..Len(sessions) :
                           /\ sessions[i].id = job[w].data[SESSION]
                           /\ sessions[i].user_id # UserOf(job[w].data).id))]_vars

\* a request with latitude only has returned while a request with both GPS
\* keys is in flight: one GPS row, of the other request
C6_Witness ==
    \E w, v \in Workers :
       /\ w # v
       /\ job[w].op = "live"
       /\ pc[w] = "returned"
       /\ steps[w] = <<"query_user", "get_or_create">>
       /\ LATITUDE \in DOMAIN job[w].data
       /\ LONGITUDE \notin DOMAIN job[w].data
       /\ job[v].op = "live"
       /\ pc[v] = "register_fuel_level"
       /\ Len(readings["gps"]) = 1

\* C7: a login with both fields returns the user of that email when the
\* password is the user's; with another password, or with an email of no
\* user, it raises AuthControllerException with the one payload
\* 'Incorrect user and/or password'.
C7_LoginOutcome ==
    \A w \in Workers :
       (job[w].op = "login" /\ DOMAIN job[w].data = {"email", "password"})
       => LET owners == {u \in UserSet : u.email = job[w].data["email"]} IN
          IF \E u \in owners : job[w].data["password"] = PlainPasswords[u.id]
          THEN /\ pc[w] = "returned"
               /\ res[w].exc = ""
               /\ res[w].ret \in owners
          ELSE /\ pc[w] = "raised"
               /\ res[w].exc = "AuthControllerException"
               /\ res[w].msg = "Incorrect user and/or password"
               /\ res[w].ret = NoUser

\* two logins have failed with one payload: one with the email of no user,
\* one with a user's email and another user's password
C7_Witness ==
    \E w, v \in Workers :
       /\ job[w].op = "login" /\ job[v].op = "login"
       /\ DOMAIN job[w].data = {"email", "password"}
       /\ DOMAIN job[v].data = {"email", "password"}
       /\ job[w].data["email"] = "eve@x"
       /\ job[w].data["password"] = PlainPasswords[1]
       /\ job[v].data["email"] = "ana@x"
       /\ job[v].data["password"] = PlainPasswords[2]
       /\ res[w] = res[v]
       /\ res[w].msg = "Incorrect user and/or password"

\* C9: a live request that is not metadata-only and carries no email, an
\* empty email or the email of no user raises ODBControllerError ('User email
\* not found' for the first two, 'User does not exist' for the third) before
\* the session get-or-create: no session is resolved, and no row is added or
\* changed by the request.
C9_UnresolvedUserFails ==
    [][\A w \in Workers :
          /\ (/\ Calls(w, "live")
              /\ ~MetadataOnly(job'[w].data)
              /\ ~KnownEmail(job'[w].data))
             => (/\ pc'[w] = "raised"
                 /\ res'[w].exc = "ODBControllerError"
                 /\ res'[w].msg = (IF /\ EML \in DOMAIN job'[w].data
                                      /\ job'[w].data[EML] # ""
                                   THEN "User does not exist"
                                   ELSE "User email not found")
                 /\ \A i \in 1..Len(steps'[w]) : steps'[w][i] = "query_user"
                 /\ sess'[w] = NoSession
                 /\ StoreUntouched)
          /\ (/\ job[w].op = "live"
              /\ ~MetadataOnly(job[w].data)
              /\ ~KnownEmail(job[w].data))
             => OnlyEnds(w)]_vars

\* an unknown email with a session token and every sensor key, after a
\* session was stored
C9_Witness ==
    \E w \in Workers :
       /\ job[w].op = "live"
       /\ pc[w] = "raised"
       /\ res[w].exc = "ODBControllerError"
       /\ res[w].msg = "User does not exist"
       /\ SensorKeys \cup {SESSION} \subseteq DOMAIN job[w].data
       /\ Len(sessions) = 1

-----------------------------------------------------------------------------
(* Properties of SpecTx.                                                   *)

\* C8: process_csv issues commit at most once, and only as its last
\* statement, after the session insert and the five batches in program
\* order; a call that returns after inserting has committed; a call that
\* raised has issued no commit and the exception is left to the caller; the
\* committed store changes only in the commit step of a call, by exactly the
\* rows that call flushed.
C8_CommitOnceAfterAllBatches ==
    [][/\ \A w \in Workers :
             /\ Count(steps'[w], "commit") <= 1
             /\ Count(steps'[w], "commit") = 1 => steps'[w] = FullUpload
             /\ (pc'[w] = "returned" /\ Count(steps'[w], "add_session") = 1)
                => Count(steps'[w], "commit") = 1
             /\ pc'[w] = "raised"
                => (Count(steps'[w], "commit") = 0 /\ res'[w].exc # "")
       /\ (sessions' # sessions \/ readings' # readings)
          => \E w \in Workers :
                /\ pc[w] = "commit"
                /\ pc'[w] = "returned"
                /\ res'[w].exc = ""
                /\ sessions' = sessions \o pend[w].sessions
                /\ \A t \in Types :
                      readings'[t] = readings[t]
                         \o FileRows(job[w].file, DerivedId(job[w].file))]_vars

\* a call that raised in its last batch, after the session insert and four
\* batches: nothing of it is committed
C8_Witness ==
    \E w \in Workers :
       /\ pc[w] = "raised"
       /\ res[w].exc = "OperationalError"
       /\ steps[w] = SubSeq(FullUpload, 1, 6)
       /\ job[w].file.n = 2
       /\ sessions = <<>>
       /\ \A t \in Types : readings[t] = <<>>

Finished(w) == job[w].op = "csv" /\ pc[w] \in {"returned", "raised"}

\* C10: when a call passed the existence check while the other request's call
\* on the same derived id was in flight, and both calls have finished without
\* a failed flush, exactly one of them raised IntegrityError at its session
\* insert and the other committed: the store holds one session row of that id
\* and, in every reading table, exactly the rows of the committing call's
\* file.  At all times a session id has one row, and the readings of a
\* session are the rows of one file.
C10_RaceLeavesOneUpload ==
    /\ \A i, j \in 1..Len(sessions) : sessions[i].id = sessions[j].id => i = j
    /\ \A i \in 1..Len(sessions) :
          \E file \in Files :
             /\ file.n > 0
             /\ DerivedId(file) = sessions[i].id
             /\ \A t \in Types :
                   RowsOf(readings, t, sessions[i].id)
                      = FileRows(file, sessions[i].id)
    /\ \A w, v \in Workers :
          (/\ w # v
           /\ raced[v] = w
           /\ Finished(w) /\ Finished(v)
           /\ res[w].exc # "OperationalError"
           /\ res[v].exc # "OperationalError")
          => LET id == DerivedId(job[w].file) IN
             \E win, lose \in {w, v} :
                /\ win # lose
                /\ res[win].exc = ""
                /\ steps[win] = FullUpload
                /\ res[lose].exc = "IntegrityError"
                /\ steps[lose] = <<"query_session">>
                /\ Cardinality({i \in 1..Len(sessions) : sessions[i].id = id}) = 1
                /\ \A i \in 1..Len(sessions) :
                      sessions[i].id = id => sessions[i].user_id = job[win].user.id
                /\ \A t \in Types :
                      RowsOf(readings, t, id) = FileRows(job[win].file, id)

\* two uploads of different files with one derived id raced: the two-row one
\* committed, the one-row one raised IntegrityError
C10_Witness ==
    \E w, v \in Workers :
       /\ w # v
       /\ raced[v] = w
       /\ Finished(w) /\ Finished(v)
       /\ job[w].file.k # job[v].file.k
       /\ job[w].file.n = 1 /\ job[v].file.n = 2
       /\ res[w].exc = "IntegrityError"
       /\ res[v].exc = ""
       /\ \A t \in Types : Len(readings[t]) = 2

====
